---------------------------- MODULE Spec2Model ----------------------------
(***************************************************************************)
(* Model of src/check_homework.py: the Streamlit script that matches       *)
(* uploaded homework files against a class roster.                         *)
(*                                                                         *)
(* Text (file names, spreadsheet cells, column headers) is a sequence of   *)
(* one-character strings, so that the regular expression \d{9} is          *)
(* evaluated character by character.  The Chinese literals of the source   *)
(* are written in ASCII: the header marker of line 30 ("xuehao", student   *)
(* number) is <<"X","H">>, the placeholder name of line 45 is <<"?">>, the *)
(* message of line 36 is "no student-ID column".                           *)
(***************************************************************************)
EXTENDS Integers, Sequences, FiniteSets, TLC

VARIABLES
    uploaded_roster,     \* st.file_uploader result, line 54 (None or a file)
    uploaded_homeworks,  \* st.file_uploader(accept_multiple_files), line 57
    deadline,            \* datetime.combine(deadline_date, deadline_time), line 65
    pc,                  \* position of the script run
    roster_dict,         \* line 69
    err,                 \* line 69
    analysis,            \* lines 77-81
    idx,                 \* position of the for loop of line 84 (1-based)
    missing_ids,         \* line 133
    done_data,           \* lines 148-158
    ui,                  \* the st.* output calls made by this run, in order
    prev_analysis,       \* analysis as the previous run of the script left it
    run,                 \* number of the current script run
    arg,                 \* argument of the function under test (function specs)
    ret                  \* its return value

vars == <<uploaded_roster, uploaded_homeworks, deadline, pc, roster_dict, err,
          analysis, idx, missing_ids, done_data, ui, prev_analysis, run,
          arg, ret>>

(***************************************************************************)
(* Python values.                                                          *)
(***************************************************************************)
\* None, and a value that is not None.
None == [some |-> FALSE]
Some(v) == [some |-> TRUE, val |-> v]

\* A result of re.search: no match is the empty text (a match of \d{9} is
\* never empty).
NoMatch == <<>>

Digits == {"0", "1", "2", "3", "4", "5", "6", "7", "8", "9"}

\* The repetition count of the pattern \d{9}.
IdLen == 9

(***************************************************************************)
(* extract_id, lines 14-17.                                                *)
(***************************************************************************)
\* Whether \d{9} matches text s at position p.
MatchAt(s, p) ==
    /\ p + IdLen - 1 <= Len(s)
    /\ \A k \in 0..(IdLen - 1) : s[p + k] \in Digits

\* A scan that keeps the LAST position where the pattern matches.
RECURSIVE ScanLast(_, _)
ScanLast(s, p) ==
    IF p < 1 THEN NoMatch
    ELSE IF MatchAt(s, p) THEN SubSeq(s, p, p + IdLen - 1)
    ELSE ScanLast(s, p - 1)

re_search_last(s) == ScanLast(s, Len(s))

\* re.search scans the start positions from the left and returns the first
\* match.
RECURSIVE ScanFrom(_, _)
ScanFrom(s, p) ==
    IF p + IdLen - 1 > Len(s) THEN NoMatch
    ELSE IF MatchAt(s, p) THEN SubSeq(s, p, p + IdLen - 1)
    ELSE ScanFrom(s, p + 1)

re_search(s) == ScanFrom(s, 1)

extract_id(filename) == re_search(filename)

(***************************************************************************)
(* get_roster_from_upload, lines 25-49.                                    *)
(*                                                                         *)
(* An uploaded roster file either makes pd.read_excel raise an exception   *)
(* whose str() is msg, or parses to a table: columns is the sequence of    *)
(* header texts, rows the sequence of rows, a row the sequence of its      *)
(* cells.  A cell is [t, v]: a string, an integer, a float with an         *)
(* integral value (v holds its digits) or NaN.  Positions are 1-based      *)
(* here and 0-based in the source; "no column" is 0.                       *)
(***************************************************************************)
RaisingFile(m) == [raises |-> TRUE, msg |-> m, columns |-> <<>>, rows |-> <<>>]
TableFile(c, r) == [raises |-> FALSE, msg |-> "", columns |-> c, rows |-> r]

StrCell(v) == [t |-> "str", v |-> v]
IntCell(v) == [t |-> "int", v |-> v]
FloatCell(v) == [t |-> "float", v |-> v]
NaN == [t |-> "nan", v |-> <<>>]

\* str(v) of a cell value.
str(c) ==
    CASE c.t = "str" -> c.v
      [] c.t = "int" -> c.v
      [] c.t = "float" -> c.v \o <<".", "0">>
      [] c.t = "nan" -> <<"n", "a", "n">>

\* The literal of line 30.
SidMarker == <<"X", "H">>

\* sub in s, for texts.
Contains(sub, s) ==
    \E p \in 1..(Len(s) - Len(sub) + 1) : SubSeq(s, p, p + Len(sub) - 1) = sub

\* The argument of head() in line 33.
HeadN == 5

\* df[col].dropna(): the non-NaN cells of column i, in row order.
RECURSIVE DropNa(_, _, _)
DropNa(rows, i, k) ==
    IF k > Len(rows) THEN <<>>
    ELSE IF rows[k][i].t = "nan" THEN DropNa(rows, i, k + 1)
    ELSE <<rows[k][i]>> \o DropNa(rows, i, k + 1)

head(s, n) == SubSeq(s, 1, IF Len(s) < n THEN Len(s) ELSE n)

\* Line 33: any(re.search(r'\d{9}', str(v)) for v in df[col].dropna().head(5)).
ColumnHasId(df, i) ==
    LET vals == head(DropNa(df.rows, i, 1), HeadN)
    IN  \E k \in 1..Len(vals) : re_search(str(vals[k])) # NoMatch

Min(S) == CHOOSE x \in S : \A y \in S : x <= y

\* Lines 30-35: the first column whose header holds the marker; failing
\* that, the first column one of whose first five values holds an ID.
FindSidIdx(df) ==
    LET byHeader == {i \in 1..Len(df.columns) : Contains(SidMarker, df.columns[i])}
        byValues == {i \in 1..Len(df.columns) : ColumnHasId(df, i)}
    IN  IF byHeader # {} THEN Min(byHeader)
        ELSE IF byValues # {} THEN Min(byValues)
        ELSE 0

EmptyDict == [x \in {} |-> <<>>]

\* d[k] = v
DictSet(d, k, v) == [x \in DOMAIN d \cup {k} |-> IF x = k THEN v ELSE d[x]]

\* A roster[s_id] = s_name that keeps an entry already there.
RosterPutFirst(roster, s_id, s_name) ==
    IF s_id \in DOMAIN roster THEN roster ELSE DictSet(roster, s_id, s_name)

\* Line 46.
RosterPut(roster, s_id, s_name) == DictSet(roster, s_id, s_name)

\* Lines 41-46, from row k on.
RECURSIVE BuildRoster(_, _, _, _)
BuildRoster(df, sid_idx, k, roster) ==
    IF k > Len(df.rows) THEN roster
    ELSE LET row == df.rows[k]
             name_idx == sid_idx + 1
             s_id == re_search(str(row[sid_idx]))
             s_name == IF name_idx <= Len(df.columns)
                       THEN str(row[name_idx]) ELSE <<"?">>
         IN  IF s_id # NoMatch
             THEN BuildRoster(df, sid_idx, k + 1, RosterPut(roster, s_id, s_name))
             ELSE BuildRoster(df, sid_idx, k + 1, roster)

\* The function returns the pair (roster, error).
get_roster_from_upload(uploaded_file) ==
    IF uploaded_file.raises
    THEN [roster |-> None, err |-> Some(uploaded_file.msg)]
    ELSE LET sid_idx == FindSidIdx(uploaded_file)
         IN  IF sid_idx = 0
             THEN [roster |-> None, err |-> Some("no student-ID column")]
             ELSE [roster |-> Some(BuildRoster(uploaded_file, sid_idx, 1, EmptyDict)),
                   err |-> None]

(***************************************************************************)
(* calculate_bytes_md5, lines 19-23.  MD5 is tabulated on the file         *)
(* contents of the model: the values are those of hashlib.md5 on the       *)
(* bytes b"", b"1" and b"2".                                               *)
(***************************************************************************)
calculate_bytes_md5(file_bytes) ==
    CASE file_bytes = <<>> -> "d41d8cd98f00b204e9800998ecf8427e"
      [] file_bytes = <<49>> -> "c4ca4238a0b923820dcc509a6f75849b"
      [] file_bytes = <<50>> -> "c81e728d9d4c2f636f067f89cc14862c"

(***************************************************************************)
(* The classification of one file, lines 96-114.                           *)
(*                                                                         *)
(* analysis is the record of the three containers of lines 77-81: valid    *)
(* and similarity are dicts (functions), unknown is a list.  A file_info   *)
(* carries, besides the five keys of lines 96-102, src: the position in    *)
(* uploaded_homeworks of the file it was built from, which stands for the  *)
(* identity of the Python dict object.                                     *)
(***************************************************************************)
\* Before line 77 runs the name analysis is unbound: it holds nothing.
Unbound == [valid |-> EmptyDict, unknown |-> <<>>, similarity |-> EmptyDict]

\* An analysis container that a new run of the script inherits from the
\* run before it.
StaleAnalysis ==
    IF prev_analysis.some THEN prev_analysis.val ELSE Unbound

\* Lines 77-81.
FreshAnalysis == [valid |-> EmptyDict, unknown |-> <<>>, similarity |-> EmptyDict]

\* Lines 96-102.
FileInfo(uploaded_file, now, md5_hash, k) ==
    [name |-> uploaded_file.name,
     time |-> now,
     is_late |-> now > deadline,
     md5 |-> md5_hash,
     size |-> uploaded_file.size,
     src |-> k]

\* A classification that starts the student's list anew at every file.
ClassifyReset(an, sid, file_info, all_roster_ids) ==
    IF sid = NoMatch \/ sid \notin all_roster_ids
    THEN [an EXCEPT !.unknown = Append(@, file_info)]
    ELSE [an EXCEPT !.valid = DictSet(@, sid, <<file_info>>)]

\* A classification that puts the file at the head of its list.
ClassifyPrepend(an, sid, file_info, all_roster_ids) ==
    IF sid = NoMatch \/ sid \notin all_roster_ids
    THEN [an EXCEPT !.unknown = <<file_info>> \o @]
    ELSE LET old == IF sid \in DOMAIN an.valid THEN an.valid[sid] ELSE <<>>
         IN  [an EXCEPT !.valid = DictSet(@, sid, <<file_info>> \o old)]

\* Lines 104-109.
Classify(an, sid, file_info, all_roster_ids) ==
    IF sid = NoMatch \/ sid \notin all_roster_ids
    THEN [an EXCEPT !.unknown = Append(@, file_info)]
    ELSE LET old == IF sid \in DOMAIN an.valid THEN an.valid[sid] ELSE <<>>
         IN  [an EXCEPT !.valid = DictSet(@, sid, Append(old, file_info))]

\* A similarity record that starts the digest's list anew at every file.
RecordSimilarityReset(an, md5_hash, file_info) ==
    [an EXCEPT !.similarity = DictSet(@, md5_hash, <<file_info>>)]

\* Lines 112-114.
RecordSimilarity(an, md5_hash, file_info) ==
    LET old == IF md5_hash \in DOMAIN an.similarity
               THEN an.similarity[md5_hash] ELSE <<>>
    IN  [an EXCEPT !.similarity = DictSet(@, md5_hash, Append(old, file_info))]

(***************************************************************************)
(* The display, lines 116-186.                                             *)
(***************************************************************************)
\* The order of Python's str comparison on the characters of the model.
Ord(c) ==
    CASE c = "." -> 46
      [] c = "0" -> 48 [] c = "1" -> 49 [] c = "2" -> 50 [] c = "3" -> 51
      [] c = "4" -> 52 [] c = "5" -> 53 [] c = "6" -> 54 [] c = "7" -> 55
      [] c = "8" -> 56 [] c = "9" -> 57
      [] c = "?" -> 63 [] c = "H" -> 72 [] c = "M" -> 77 [] c = "X" -> 88
      [] c = "_" -> 95 [] c = "a" -> 97 [] c = "b" -> 98 [] c = "h" -> 104
      [] c = "n" -> 110 [] c = "p" -> 112 [] c = "s" -> 115 [] c = "w" -> 119
      [] c = "y" -> 121

\* a < b for texts: at the first position where they differ, or a is a
\* proper prefix of b.
StrLess(a, b) ==
    \/ \E k \in 1..Len(a) :
          /\ k <= Len(b)
          /\ \A j \in 1..(k - 1) : a[j] = b[j]
          /\ Ord(a[k]) < Ord(b[k])
    \/ /\ Len(a) < Len(b)
       /\ \A j \in 1..Len(a) : a[j] = b[j]

\* sorted(list(S)) for a set of texts.
RECURSIVE sorted(_)
sorted(S) ==
    IF S = {} THEN <<>>
    ELSE LET m == CHOOSE x \in S : \A y \in S \ {x} : StrLess(x, y)
         IN  <<m>> \o sorted(S \ {m})

\* The roster's IDs, sorted, without the subtraction of the submitters.
MissingIdsAll(all_roster_ids, valid) == sorted(all_roster_ids)

\* Line 133.
MissingIds(all_roster_ids, valid) == sorted(all_roster_ids \ DOMAIN valid)

\* The first file of the list.
RepresentativeFirst(f_list) == f_list[1]

\* Line 151: f = f_list[-1].
Representative(f_list) == f_list[Len(f_list)]

\* round(size / 1024, 2), in hundredths of a KB: size / 1024 is exact in
\* binary floating point, so that round() rounds the exact quotient, ties
\* to even.
RoundKB(size) ==
    LET q == (size * 100) \div 1024
        r == (size * 100) % 1024
    IN  IF 2 * r > 1024 \/ (2 * r = 1024 /\ q % 2 = 1) THEN q + 1 ELSE q

\* Lines 152-158: the row of one student.
DoneRow(sid, f_list, roster) ==
    LET f == Representative(f_list)
    IN  [sid |-> sid,
         name |-> roster[sid],
         filename |-> f.name,
         size_kb |-> RoundKB(f.size),
         versions |-> Len(f_list)]

\* Lines 148-158: done_data, keyed by the student's ID.
DoneData(valid, roster) ==
    [sid \in DOMAIN valid |-> DoneRow(sid, valid[sid], roster)]

(***************************************************************************)
(* The inputs of the model.                                                *)
(***************************************************************************)
MaxFiles == 3        \* longest batch of uploaded files
MaxRerunFiles == 2   \* longest batch where the script is run again
MaxRuns == 2         \* runs of the script on the same inputs

ID_A == <<"1", "2", "3", "4", "5", "6", "7", "8", "9">>
ID_B == <<"9", "8", "7", "6", "5", "4", "3", "2", "1">>
ID_C == <<"5", "5", "5", "5", "5", "5", "5", "5", "5">>

\* An uploaded homework file: getvalue() returns bytes, or raises when the
\* file is not readable; size is the size the uploader reports.
Upload(n, r, b) == [name |-> n, readable |-> r, bytes |-> b, size |-> Len(b)]

FileNames ==
    { ID_A \o <<".", "p", "y">>,      \* an ID at the start
      <<"h", "w">> \o ID_A,           \* the same ID, after a prefix
      <<"h", "w">> \o ID_B,           \* another ID
      <<"h", "w", "1", "2", "3">> }   \* no ID

UploadChoices ==
    { Upload(n, TRUE, b) : n \in FileNames, b \in {<<49>>, <<50>>} }
    \cup { Upload(<<"h", "w">> \o ID_A, FALSE, <<>>) }

Batches(n) == UNION { [1..k -> UploadChoices] : k \in 0..n }

\* The roster files of the main flow.
RosterAB ==
    TableFile(<<SidMarker, <<"X", "M">>>>,
              << <<IntCell(ID_B), StrCell(<<"B">>)>>,
                 <<IntCell(ID_C), StrCell(<<"C">>)>>,
                 <<StrCell(<<"s">> \o ID_A), StrCell(<<"A">>)>> >>)
RosterA ==
    TableFile(<< <<"n">>, <<"i", "d">> >>,
              << <<StrCell(<<"A">>), FloatCell(ID_A)>> >>)
RosterEmpty == TableFile(<<SidMarker, <<"X", "M">>>>, <<>>)
RosterNoIdColumn == TableFile(<< <<"n">> >>, << <<StrCell(<<"A">>)>> >>)

RosterUploads ==
    { None,
      Some(RosterAB), Some(RosterA), Some(RosterEmpty), Some(RosterNoIdColumn),
      Some(RaisingFile("File is not a zip file")), Some(RaisingFile("")) }

\* Values of datetime.datetime.now(), the local wall clock: it is not
\* monotonic (it is set back by a clock adjustment or at the end of
\* daylight saving time).
Times == {1, 2}
Deadlines == {1}

Idle == <<>>

InitFlow(n) ==
    /\ uploaded_roster \in RosterUploads
    /\ uploaded_homeworks \in Batches(n)
    /\ deadline \in Deadlines
    /\ pc = "main"
    /\ roster_dict = None
    /\ err = None
    /\ analysis = Unbound
    /\ idx = 0
    /\ missing_ids = <<>>
    /\ done_data = EmptyDict
    /\ ui = <<>>
    /\ prev_analysis = None
    /\ run = 1
    /\ arg = Idle
    /\ ret = Idle

Init == InitFlow(MaxFiles)

(***************************************************************************)
(* The main flow, lines 68-189.                                            *)
(***************************************************************************)
\* Python's truth value of err: None and "" are false.
Truthy(e) == e.some /\ e.val # ""

\* Line 68.
BothUploaded == uploaded_roster.some /\ uploaded_homeworks # <<>>

\* Lines 188-189.
ShowPrompt ==
    /\ pc = "main"
    /\ ~BothUploaded
    /\ ui' = Append(ui, "st.info")
    /\ pc' = "prompt"
    /\ UNCHANGED <<uploaded_roster, uploaded_homeworks, deadline, roster_dict,
                   err, analysis, idx, missing_ids, done_data, prev_analysis,
                   run, arg, ret>>

\* Lines 68-81.  With err false and roster_dict None (an exception whose
\* str() is empty), roster_dict.keys() of line 74 raises AttributeError.
LoadRoster ==
    /\ pc = "main"
    /\ BothUploaded
    /\ LET r == get_roster_from_upload(uploaded_roster.val)
       IN  /\ roster_dict' = r.roster
           /\ err' = r.err
           /\ IF Truthy(r.err)
              THEN /\ ui' = ui \o <<"get_roster_from_upload", "st.error">>
                   /\ pc' = "error"
                   /\ UNCHANGED <<analysis, idx>>
              ELSE IF ~r.roster.some
              THEN /\ ui' = Append(ui, "get_roster_from_upload")
                   /\ pc' = "raised74"
                   /\ UNCHANGED <<analysis, idx>>
              ELSE /\ ui' = Append(ui, "get_roster_from_upload")
                   /\ analysis' = FreshAnalysis
                   /\ idx' = 1
                   /\ pc' = "loop"
    /\ UNCHANGED <<uploaded_roster, uploaded_homeworks, deadline, missing_ids,
                   done_data, prev_analysis, run, arg, ret>>

\* Line 74.
all_roster_ids == DOMAIN roster_dict.val

\* One iteration of the loop of lines 84-114; now is the value of
\* datetime.datetime.now() in line 93.  An exception of getvalue() in line
\* 87 is caught nowhere: it ends the run.
ProcessFile ==
    /\ pc = "loop"
    /\ idx <= Len(uploaded_homeworks)
    /\ LET uploaded_file == uploaded_homeworks[idx]
       IN  IF ~uploaded_file.readable
           THEN /\ pc' = "raised87"
                /\ UNCHANGED <<analysis, idx>>
           ELSE \E now \in Times :
                  LET sid == extract_id(uploaded_file.name)
                      md5_hash == calculate_bytes_md5(uploaded_file.bytes)
                      file_info == FileInfo(uploaded_file, now, md5_hash, idx)
                  IN  /\ analysis' =
                            RecordSimilarity(
                                Classify(analysis, sid, file_info, all_roster_ids),
                                md5_hash, file_info)
                      /\ idx' = idx + 1
                      /\ pc' = "loop"
    /\ UNCHANGED <<uploaded_roster, uploaded_homeworks, deadline, roster_dict,
                   err, missing_ids, done_data, ui, prev_analysis, run, arg, ret>>

\* Lines 116-186, after the loop.  With no valid submission done_data is
\* empty, pd.DataFrame(done_data) has no column, and sort_values of line
\* 159 raises KeyError: the tabs after it are not drawn.
Display ==
    /\ pc = "loop"
    /\ idx > Len(uploaded_homeworks)
    /\ missing_ids' = MissingIds(all_roster_ids, analysis.valid)
    /\ done_data' = DoneData(analysis.valid, roster_dict.val)
    /\ LET t1 == IF missing_ids' # <<>> THEN "st.dataframe(df_missing)"
                 ELSE "st.success"
       IN  IF DOMAIN analysis.valid = {}
           THEN /\ ui' = ui \o <<"metrics", t1>>
                /\ pc' = "raised159"
           ELSE /\ ui' = ui \o <<"metrics", t1, "st.dataframe(done_data)",
                                 "unknown", "similarity">>
                /\ pc' = "done"
    /\ UNCHANGED <<uploaded_roster, uploaded_homeworks, deadline, roster_dict,
                   err, analysis, idx, prev_analysis, run, arg, ret>>

Next == ShowPrompt \/ LoadRoster \/ ProcessFile \/ Display

Spec == Init /\ [][Next]_vars

(***************************************************************************)
(* Streamlit runs the script again, top to bottom, on the same uploads,    *)
(* at every interaction with the page.  The names of the script are bound  *)
(* anew; prev_analysis keeps what the loop of the run before had built,    *)
(* when it ran to its end.                                                 *)
(***************************************************************************)
Rerun ==
    /\ pc \in {"prompt", "error", "raised74", "raised87", "raised159", "done"}
    /\ run < MaxRuns
    /\ prev_analysis' = IF pc \in {"raised159", "done"} THEN Some(analysis) ELSE None
    /\ run' = run + 1
    /\ pc' = "main"
    /\ roster_dict' = None
    /\ err' = None
    /\ analysis' = Unbound
    /\ idx' = 0
    /\ missing_ids' = <<>>
    /\ done_data' = EmptyDict
    /\ ui' = <<>>
    /\ UNCHANGED <<uploaded_roster, uploaded_homeworks, deadline, arg, ret>>

InitRerun == InitFlow(MaxRerunFiles)

NextRerun == ShowPrompt \/ LoadRoster \/ ProcessFile \/ Display \/ Rerun

SpecRerun == InitRerun /\ [][NextRerun]_vars

(***************************************************************************)
(* extract_id and get_roster_from_upload as functions: the argument is     *)
(* drawn from a bounded set and the function is applied to it.             *)
(***************************************************************************)
MaxChunks == 5       \* pieces a generated file name is made of
MaxRows == 2         \* rows of a generated roster table

\* A file name is a concatenation of pieces: a letter, one digit, four
\* digits, eight digits.
Chunks ==
    { <<"a">>, <<"1">>, <<"2", "0", "1", "9">>,
      <<"5", "6", "7", "8", "9", "0", "1", "2">> }

RECURSIVE Flatten(_)
Flatten(ss) == IF ss = <<>> THEN <<>> ELSE Head(ss) \o Flatten(Tail(ss))

GenFilenames ==
    { Flatten(ss) : ss \in UNION { [1..k -> Chunks] : k \in 0..MaxChunks } }

GenCells ==
    { IntCell(ID_A), FloatCell(ID_A), StrCell(<<"s">> \o ID_B),
      StrCell(<<"A">>), NaN }

GenColumns ==
    { <<SidMarker, <<"X", "M">>>>,     \* marker in the first header
      << <<"n">>, SidMarker >>,        \* marker in the last header
      << <<"n">>, <<"i", "d">> >>,     \* no marker: the values decide
      << SidMarker >> }                \* one column

GenTables ==
    { TableFile(c, r) :
        c \in GenColumns,
        r \in UNION { [1..k -> UNION { [1..w -> GenCells] : w \in 1..2 }]
                      : k \in 0..MaxRows } }

\* The tables whose rows have one cell per column, and the files that do
\* not parse.
GenRosterFiles ==
    { t \in GenTables : \A k \in 1..Len(t.rows) : Len(t.rows[k]) = Len(t.columns) }
    \cup { RaisingFile("File is not a zip file"), RaisingFile("") }

InitFunction(args) ==
    /\ arg \in args
    /\ ret = Idle
    /\ pc = "call"
    /\ uploaded_roster = None
    /\ uploaded_homeworks = <<>>
    /\ deadline = 1
    /\ roster_dict = None
    /\ err = None
    /\ analysis = Unbound
    /\ idx = 0
    /\ missing_ids = <<>>
    /\ done_data = EmptyDict
    /\ ui = <<>>
    /\ prev_analysis = None
    /\ run = 1

flow_vars == <<uploaded_roster, uploaded_homeworks, deadline, roster_dict, err,
               analysis, idx, missing_ids, done_data, ui, prev_analysis, run>>

CallExtractId ==
    /\ pc = "call"
    /\ ret' = extract_id(arg)
    /\ pc' = "returned"
    /\ UNCHANGED <<arg, flow_vars>>

CallGetRoster ==
    /\ pc = "call"
    /\ ret' = get_roster_from_upload(arg)
    /\ pc' = "returned"
    /\ UNCHANGED <<arg, flow_vars>>

InitExtract == InitFunction(GenFilenames)
SpecExtract == InitExtract /\ [][CallExtractId]_vars

InitRoster == InitFunction(GenRosterFiles)
SpecRoster == InitRoster /\ [][CallGetRoster]_vars

(***************************************************************************)
(* Properties.                                                             *)
(***************************************************************************)
\* The positions (src) of the records of a list, as a set.
Srcs(f_list) == { f_list[j].src : j \in 1..Len(f_list) }

\* How many records built from file k the two classification buckets hold.
Occurrences(k) ==
    Cardinality({ p \in { <<sid, j>> : sid \in DOMAIN analysis.valid, j \in 1..Len(uploaded_homeworks) } :
                    /\ p[2] <= Len(analysis.valid[p[1]])
                    /\ analysis.valid[p[1]][p[2]].src = k })
    + Cardinality({ j \in 1..Len(analysis.unknown) : analysis.unknown[j].src = k })

\* The loop is running or has run to its end.
InOrAfterLoop == pc \in {"loop", "done", "raised159"}
AfterLoop == pc \in {"done", "raised159"}

\* The files the loop has processed.
Processed == 1..(idx - 1)

RECURSIVE SumLen(_, _)
SumLen(d, S) ==
    IF S = {} THEN 0
    ELSE LET x == CHOOSE y \in S : TRUE IN Len(d[x]) + SumLen(d, S \ {x})

\* C1: once the loop has processed a batch (and, at every iteration, for the
\* files processed so far) each file is in exactly one of a SubmissionGroup
\* list and UnknownList, the record there is the one built from it, and the
\* entries of all lists number as many as the files.
C1_Partition ==
    InOrAfterLoop =>
        /\ \A k \in Processed : Occurrences(k) = 1
        /\ \A sid \in DOMAIN analysis.valid :
              \A j \in 1..Len(analysis.valid[sid]) :
                  /\ analysis.valid[sid][j].src \in Processed
                  /\ analysis.valid[sid][j].name
                        = uploaded_homeworks[analysis.valid[sid][j].src].name
        /\ \A j \in 1..Len(analysis.unknown) :
              /\ analysis.unknown[j].src \in Processed
              /\ analysis.unknown[j].name
                    = uploaded_homeworks[analysis.unknown[j].src].name
        /\ SumLen(analysis.valid, DOMAIN analysis.valid) + Len(analysis.unknown)
              = idx - 1
        /\ (AfterLoop => idx - 1 = Len(uploaded_homeworks))

\* A batch of three files has been classified: two of one student, one
\* unknown.
C1_Witness ==
    /\ pc = "done"
    /\ Len(uploaded_homeworks) = 3
    /\ Len(analysis.unknown) = 1
    /\ \E sid \in DOMAIN analysis.valid : Len(analysis.valid[sid]) = 2

\* C2: the missing students and the SubmissionGroup keys number as many as
\* the roster; MissingList is the roster IDs that are no SubmissionGroup
\* key, each once, in ascending order.
C2_MissingCount ==
    AfterLoop =>
        /\ Len(missing_ids) + Cardinality(DOMAIN analysis.valid)
              = Cardinality(DOMAIN roster_dict.val)
        /\ { missing_ids[j] : j \in 1..Len(missing_ids) }
              = DOMAIN roster_dict.val \ DOMAIN analysis.valid
        /\ \A j \in 1..(Len(missing_ids) - 1) :
              StrLess(missing_ids[j], missing_ids[j + 1])

\* A roster of three of which one has submitted: two are missing.
C2_Witness ==
    /\ pc = "done"
    /\ Cardinality(DOMAIN roster_dict.val) = 3
    /\ Len(missing_ids) = 2
    /\ Len(analysis.unknown) > 0

\* C3: two processed files are in the same DigestGroups list exactly when
\* their contents are the same bytes, whatever their names, their order and
\* their classification (every processed file is in a list: the case of a
\* file and itself).
C3_DigestGrouping ==
    InOrAfterLoop =>
        \A i \in Processed : \A j \in Processed :
            (uploaded_homeworks[i].bytes = uploaded_homeworks[j].bytes)
            <=> (\E d \in DOMAIN analysis.similarity :
                    {i, j} \subseteq Srcs(analysis.similarity[d]))

\* Same bytes under two names, one file valid and the other unknown, and a
\* third file of other bytes.
C3_Witness ==
    /\ pc = "done"
    /\ \E d \in DOMAIN analysis.similarity :
          LET l == analysis.similarity[d]
          IN  /\ Len(l) = 2
              /\ l[1].name # l[2].name
              /\ \E u \in 1..Len(analysis.unknown) : analysis.unknown[u].src = l[1].src
              /\ \E sid \in DOMAIN analysis.valid :
                    l[2].src \in Srcs(analysis.valid[sid])
    /\ Cardinality(DOMAIN analysis.similarity) = 2

\* Nine decimal digits stand at positions p .. p+8 of text s.
NineDigitsAt(s, p) ==
    /\ p >= 1
    /\ p + 8 <= Len(s)
    /\ \A k \in p..(p + 8) : s[k] \in Digits

\* C4: extract_id returns the nine digits at the leftmost position of the
\* file name where nine decimal digits stand in a row, and nothing when
\* there is no such position (a run of more than nine digits counts: its
\* first nine are returned).
C4_ExtractLeftmost ==
    pc = "returned" =>
        IF \E p \in 1..Len(arg) : NineDigitsAt(arg, p)
        THEN \E p \in 1..Len(arg) :
                /\ NineDigitsAt(arg, p)
                /\ \A q \in 1..(p - 1) : ~NineDigitsAt(arg, q)
                /\ ret = SubSeq(arg, p, p + 8)
        ELSE ret = NoMatch

\* A file name with two separate nine-digit runs of different digits: the
\* left one is returned.
C4_Witness ==
    /\ pc = "returned"
    /\ \E p \in 1..Len(arg) : \E q \in 1..Len(arg) :
          /\ NineDigitsAt(arg, p)
          /\ NineDigitsAt(arg, q)
          /\ p + 9 < q
          /\ arg[p + 9] \notin Digits
          /\ SubSeq(arg, p, p + 8) # SubSeq(arg, q, q + 8)
          /\ ret = SubSeq(arg, p, p + 8)

\* The rows of table df whose cell in column c holds nine digits in a row.
RowsWithId(df, c) ==
    { k \in 1..Len(df.rows) :
        \E p \in 1..Len(str(df.rows[k][c])) : NineDigitsAt(str(df.rows[k][c]), p) }

\* The name the table gives in row k, for ID column c.
NameOfRow(df, c, k) ==
    IF c + 1 <= Len(df.columns) THEN str(df.rows[k][c + 1]) ELSE <<"?">>

\* C9: for a table whose ID column c is found, the mapping returned has as
\* keys exactly the IDs extracted from the ID cells of the rows that hold
\* one, rows without one are skipped, and each ID maps to the name of the
\* last row that yields it.
C9_RosterMapping ==
    (pc = "returned" /\ ~arg.raises /\ FindSidIdx(arg) # 0) =>
        LET c == FindSidIdx(arg)
            roster == ret.roster.val
        IN  /\ ret.roster.some
            /\ ret.err = None
            /\ DOMAIN roster = { re_search(str(arg.rows[k][c])) : k \in RowsWithId(arg, c) }
            /\ \A k \in RowsWithId(arg, c) :
                  LET s_id == re_search(str(arg.rows[k][c]))
                  IN  (\A j \in RowsWithId(arg, c) :
                          (j > k => re_search(str(arg.rows[j][c])) # s_id))
                      => roster[s_id] = NameOfRow(arg, c, k)

\* Two rows yield the same ID with different names, and the mapping holds
\* the later name.
C9_Witness ==
    /\ pc = "returned"
    /\ ~arg.raises
    /\ FindSidIdx(arg) # 0
    /\ Len(arg.rows) = 2
    /\ LET c == FindSidIdx(arg)
       IN  /\ RowsWithId(arg, c) = {1, 2}
           /\ re_search(str(arg.rows[1][c])) = re_search(str(arg.rows[2][c]))
           /\ NameOfRow(arg, c, 1) # NameOfRow(arg, c, 2)
           /\ ret.roster.some
           /\ ret.roster.val[re_search(str(arg.rows[2][c]))] = NameOfRow(arg, c, 2)

\* A row without an ID is skipped and the row after it is kept.
C9_WitnessSkip ==
    /\ pc = "returned"
    /\ ~arg.raises
    /\ FindSidIdx(arg) # 0
    /\ Len(arg.rows) = 2
    /\ RowsWithId(arg, FindSidIdx(arg)) = {2}
    /\ ret.roster.some
    /\ Cardinality(DOMAIN ret.roster.val) = 1

\* The records of a list stand in the order of arrival of their files.
Ordered(f_list) ==
    \A j \in 1..(Len(f_list) - 1) : f_list[j].src < f_list[j + 1].src

\* list is old, or old with one record of file k appended.
SameOrAppended(old, list, k) ==
    \/ list = old
    \/ /\ Len(list) = Len(old) + 1
       /\ SubSeq(list, 1, Len(old)) = old
       /\ list[Len(list)].src = k

ListOf(d, key) == IF key \in DOMAIN d THEN d[key] ELSE <<>>

\* C10: in every SubmissionGroup list, in UnknownList and in every
\* DigestGroups list the records stand in the order of arrival of their
\* files, at every iteration of the loop; and an iteration changes a list
\* only by appending the record of the current file at its end.
C10_ArrivalOrder ==
    /\ [](/\ \A sid \in DOMAIN analysis.valid : Ordered(analysis.valid[sid])
          /\ Ordered(analysis.unknown)
          /\ \A d \in DOMAIN analysis.similarity : Ordered(analysis.similarity[d]))
    /\ [][pc = "loop" =>
            /\ \A sid \in DOMAIN analysis.valid' :
                  SameOrAppended(ListOf(analysis.valid, sid), analysis.valid'[sid], idx)
            /\ DOMAIN analysis.valid \subseteq DOMAIN analysis.valid'
            /\ SameOrAppended(analysis.unknown, analysis.unknown', idx)
            /\ \A d \in DOMAIN analysis.similarity' :
                  SameOrAppended(ListOf(analysis.similarity, d),
                                 analysis.similarity'[d], idx)
            /\ DOMAIN analysis.similarity \subseteq DOMAIN analysis.similarity']_vars

\* Three files: two of them in one SubmissionGroup list and in one
\* DigestGroups list.
C10_Witness ==
    /\ InOrAfterLoop
    /\ idx = 4
    /\ \E sid \in DOMAIN analysis.valid : Len(analysis.valid[sid]) = 2
    /\ \E d \in DOMAIN analysis.similarity : Len(analysis.similarity[d]) = 2
    /\ Len(analysis.unknown) = 1

\* A file_info without the two keys that come from the clock.
Unclocked(f) == [name |-> f.name, md5 |-> f.md5, size |-> f.size, src |-> f.src]

UnclockedList(f_list) == [j \in 1..Len(f_list) |-> Unclocked(f_list[j])]

UnclockedAnalysis(an) ==
    [valid |-> [sid \in DOMAIN an.valid |-> UnclockedList(an.valid[sid])],
     unknown |-> UnclockedList(an.unknown),
     similarity |-> [d \in DOMAIN an.similarity |-> UnclockedList(an.similarity[d])]]

\* The script has classified the same roster and batch a second time.
ClassifiedTwice == run > 1 /\ AfterLoop /\ prev_analysis.some

\* C5, as claimed: classifying the same roster and batch twice yields
\* identical structures, every key of every file record included.
C5_Idempotent_AsClaimed == ClassifiedTwice => analysis = prev_analysis.val

\* C5, amended: the two classifications agree in the keys and the order of
\* SubmissionGroup, UnknownList and DigestGroups and in the name, md5 and
\* size of every record; time and is_late are read from the clock at each
\* run and may differ.
C5_IdempotentUpToClock ==
    ClassifiedTwice => UnclockedAnalysis(analysis) = UnclockedAnalysis(prev_analysis.val)

\* A second classification of a batch of two files of one student, whose
\* records differ from the first run's in time.
C5_Witness ==
    /\ ClassifiedTwice
    /\ pc = "done"
    /\ \E sid \in DOMAIN analysis.valid : Len(analysis.valid[sid]) = 2
    /\ analysis # prev_analysis.val

\* The largest time of the records of a list.
MaxTime(f_list) ==
    CHOOSE t \in { f_list[j].time : j \in 1..Len(f_list) } :
        \A j \in 1..Len(f_list) : f_list[j].time <= t

\* The row of done_data shows file f.
Shows(row, f) == row.filename = f.name /\ row.size_kb = RoundKB(f.size)

\* C6, as claimed: every record carries a time, so the file shown for a
\* student is one with the maximum time of the student's list.
C6_MaxTimestamp_AsClaimed ==
    pc = "done" =>
        \A sid \in DOMAIN analysis.valid :
            \E j \in 1..Len(analysis.valid[sid]) :
                /\ analysis.valid[sid][j].time = MaxTime(analysis.valid[sid])
                /\ Shows(done_data[sid], analysis.valid[sid][j])

\* C6, amended: the file shown for a student is always the last-arrived
\* file of the student's list, whatever the times of the records; the row
\* also gives the roster name and the number of files of the list.
C6_LastArrived ==
    pc = "done" =>
        /\ DOMAIN done_data = DOMAIN analysis.valid
        /\ \A sid \in DOMAIN analysis.valid :
              LET f_list == analysis.valid[sid]
              IN  /\ Shows(done_data[sid], f_list[Len(f_list)])
                  /\ done_data[sid].versions = Len(f_list)
                  /\ done_data[sid].name = roster_dict.val[sid]
                  /\ \A j \in 1..Len(f_list) : f_list[j].src <= f_list[Len(f_list)].src

\* A student with two files of different names, the first with the later
\* time: the row shows the second.
C6_Witness ==
    /\ pc = "done"
    /\ \E sid \in DOMAIN analysis.valid :
          LET f_list == analysis.valid[sid]
          IN  /\ Len(f_list) = 2
              /\ f_list[1].name # f_list[2].name
              /\ f_list[1].time > f_list[2].time
              /\ done_data[sid].filename = f_list[2].name

\* C7: a file that cannot be read does not abort the batch: no exception
\* leaves the loop, the loop goes on to the files after it, and at the end
\* the file is in its classification bucket and in no DigestGroups list.
C7_ReadFailureTolerated ==
    /\ pc # "raised87"
    /\ AfterLoop =>
          \A k \in 1..Len(uploaded_homeworks) :
              ~uploaded_homeworks[k].readable =>
                  /\ Occurrences(k) = 1
                  /\ \A d \in DOMAIN analysis.similarity :
                        k \notin Srcs(analysis.similarity[d])

\* The run is over.
RunOver == pc \in {"prompt", "error", "raised74", "raised87", "raised159", "done"}

\* The loader was called and returned an error.
LoaderFailed == err.some

\* C8: classification runs only with both inputs and a roster loaded
\* without error: when the loader returns an error, one error message is
\* shown, no file is classified and no table is produced; when an input is
\* absent, only the prompt is shown and the loader is not called.
C8_ErrorHalts ==
    RunOver =>
        /\ LoaderFailed =>
              /\ ui = <<"get_roster_from_upload", "st.error">>
              /\ analysis = Unbound
              /\ done_data = EmptyDict
        /\ ~BothUploaded => ui = <<"st.info">> /\ analysis = Unbound
        /\ (idx > 0 => BothUploaded /\ roster_dict.some /\ ~LoaderFailed)

=============================================================================
